---- MODULE Spec2Model ----
(***************************************************************************)
(* Course catalog of ProjectTwo.cpp: a binary search tree of Course        *)
(* records keyed by courseNumber, the comma splitter and file loader that  *)
(* fill it, and the menu session that owns it.                             *)
(*                                                                         *)
(* Strings are sequences of character codes, so that operator< and         *)
(* operator== of std::string are the lexicographic comparison of the       *)
(* codes.  Pointers are indices into the sequence heap of allocated        *)
(* TreeNodes; nullptr is the index 0.                                      *)
(***************************************************************************)
EXTENDS Integers, Sequences, FiniteSets, TLC

VARIABLES heap, root, dataLoaded, inserted, op, key, found, listing,
          passes, loads, line, tokens, file, canOpen, output

vars == <<heap, root, dataLoaded, inserted, op, key, found, listing,
          passes, loads, line, tokens, file, canOpen, output>>

(***************************************************************************)
(* Characters and strings                                                  *)
(***************************************************************************)
Comma == 44
Letters == {65, 66}
Alphabet == Letters \cup {Comma}

MaxNodes == 3
MaxLineLen == 4
MaxLines == 2

Min(a, b) == IF a < b THEN a ELSE b

StrOfLen(S, n) == [1..n -> S]
StrUpTo(S, n) == UNION {StrOfLen(S, k) : k \in 0..n}

\* std::string operator< : lexicographic order of the character codes, a
\* proper prefix being smaller.
StrLess(a, b) ==
    \E i \in 1..(Min(Len(a), Len(b)) + 1) :
        /\ \A j \in 1..(i - 1) : a[j] = b[j]
        /\ \/ i > Len(a) /\ i <= Len(b)
           \/ i <= Len(a) /\ i <= Len(b) /\ a[i] < b[i]

StrLeq(a, b) == a = b \/ StrLess(a, b)

(***************************************************************************)
(* Course and TreeNode                                                     *)
(***************************************************************************)
nullptr == 0

Course(number, title, prereqs) ==
    [courseNumber |-> number, courseTitle |-> title, prerequisites |-> prereqs]

TreeNode(c) == [course |-> c, left |-> nullptr, right |-> nullptr]

\* Identifiers and records the tree operations are exercised with.
Ids == {<<>>, <<65>>, <<65, 65>>, <<65, 66>>, <<66>>}
Titles == {<<65>>, <<66>>}
Courses == {Course(n, t, <<>>) : n \in Ids, t \in Titles}

(***************************************************************************)
(* insertIntoBST: returns the heap after the insertion and the pointer the *)
(* call returns.                                                           *)
(***************************************************************************)
\* Variant: the comparison of line 30 reversed.
RECURSIVE insertIntoBST_reversed(_, _, _)
insertIntoBST_reversed(h, r, c) ==
    IF r = nullptr
    THEN [heap |-> Append(h, TreeNode(c)), root |-> Len(h) + 1]
    ELSE IF StrLess(h[r].course.courseNumber, c.courseNumber)
         THEN LET sub == insertIntoBST_reversed(h, h[r].left, c)
              IN  [heap |-> [sub.heap EXCEPT ![r].left = sub.root], root |-> r]
         ELSE LET sub == insertIntoBST_reversed(h, h[r].right, c)
              IN  [heap |-> [sub.heap EXCEPT ![r].right = sub.root], root |-> r]

\* Variant: line 30 with <= instead of <, an equal key going left.
RECURSIVE insertIntoBST_eqLeft(_, _, _)
insertIntoBST_eqLeft(h, r, c) ==
    IF r = nullptr
    THEN [heap |-> Append(h, TreeNode(c)), root |-> Len(h) + 1]
    ELSE IF StrLeq(c.courseNumber, h[r].course.courseNumber)
         THEN LET sub == insertIntoBST_eqLeft(h, h[r].left, c)
              IN  [heap |-> [sub.heap EXCEPT ![r].left = sub.root], root |-> r]
         ELSE LET sub == insertIntoBST_eqLeft(h, h[r].right, c)
              IN  [heap |-> [sub.heap EXCEPT ![r].right = sub.root], root |-> r]

\* Variant: an equal key overwrites the course of the node that has it.
RECURSIVE insertIntoBST_replace(_, _, _)
insertIntoBST_replace(h, r, c) ==
    IF r = nullptr
    THEN [heap |-> Append(h, TreeNode(c)), root |-> Len(h) + 1]
    ELSE IF c.courseNumber = h[r].course.courseNumber
         THEN [heap |-> [h EXCEPT ![r].course = c], root |-> r]
         ELSE IF StrLess(c.courseNumber, h[r].course.courseNumber)
              THEN LET sub == insertIntoBST_replace(h, h[r].left, c)
                   IN  [heap |-> [sub.heap EXCEPT ![r].left = sub.root],
                        root |-> r]
              ELSE LET sub == insertIntoBST_replace(h, h[r].right, c)
                   IN  [heap |-> [sub.heap EXCEPT ![r].right = sub.root],
                        root |-> r]

\* Variant: line 37 returns the pointer the recursive call returned.
RECURSIVE insertIntoBST_returnsChild(_, _, _)
insertIntoBST_returnsChild(h, r, c) ==
    IF r = nullptr
    THEN [heap |-> Append(h, TreeNode(c)), root |-> Len(h) + 1]
    ELSE IF StrLess(c.courseNumber, h[r].course.courseNumber)
         THEN LET sub == insertIntoBST_returnsChild(h, h[r].left, c)
              IN  [heap |-> [sub.heap EXCEPT ![r].left = sub.root],
                   root |-> sub.root]
         ELSE LET sub == insertIntoBST_returnsChild(h, h[r].right, c)
              IN  [heap |-> [sub.heap EXCEPT ![r].right = sub.root],
                   root |-> sub.root]

\* Variant: line 31 assigns the returned pointer to both children.
RECURSIVE insertIntoBST_bothSides(_, _, _)
insertIntoBST_bothSides(h, r, c) ==
    IF r = nullptr
    THEN [heap |-> Append(h, TreeNode(c)), root |-> Len(h) + 1]
    ELSE IF StrLess(c.courseNumber, h[r].course.courseNumber)
         THEN LET sub == insertIntoBST_bothSides(h, h[r].left, c)
              IN  [heap |-> [sub.heap EXCEPT ![r].left = sub.root,
                                             ![r].right = sub.root],
                   root |-> r]
         ELSE LET sub == insertIntoBST_bothSides(h, h[r].right, c)
              IN  [heap |-> [sub.heap EXCEPT ![r].right = sub.root], root |-> r]

RECURSIVE insertIntoBST(_, _, _)
insertIntoBST(h, r, c) ==
    IF r = nullptr
    THEN [heap |-> Append(h, TreeNode(c)), root |-> Len(h) + 1]
    ELSE IF StrLess(c.courseNumber, h[r].course.courseNumber)
         THEN LET sub == insertIntoBST(h, h[r].left, c)
              IN  [heap |-> [sub.heap EXCEPT ![r].left = sub.root], root |-> r]
         ELSE LET sub == insertIntoBST(h, h[r].right, c)
              IN  [heap |-> [sub.heap EXCEPT ![r].right = sub.root], root |-> r]

(***************************************************************************)
(* searchBST: the pointer into the tree it returns (the node whose course  *)
(* is returned), or nullptr.                                               *)
(***************************************************************************)
\* Variant: the descent of lines 49-54 with the two children exchanged.
RECURSIVE searchBST_swapped(_, _, _)
searchBST_swapped(h, r, courseNumber) ==
    IF r = nullptr
    THEN nullptr
    ELSE IF h[r].course.courseNumber = courseNumber
         THEN r
         ELSE IF StrLess(courseNumber, h[r].course.courseNumber)
              THEN searchBST_swapped(h, h[r].right, courseNumber)
              ELSE searchBST_swapped(h, h[r].left, courseNumber)

\* Variant: an equal key keeps descending right and the deepest match wins.
RECURSIVE searchBST_lastMatch(_, _, _)
searchBST_lastMatch(h, r, courseNumber) ==
    IF r = nullptr
    THEN nullptr
    ELSE IF h[r].course.courseNumber = courseNumber
         THEN LET deeper == searchBST_lastMatch(h, h[r].right, courseNumber)
              IN  IF deeper # nullptr THEN deeper ELSE r
         ELSE IF StrLess(courseNumber, h[r].course.courseNumber)
              THEN searchBST_lastMatch(h, h[r].left, courseNumber)
              ELSE searchBST_lastMatch(h, h[r].right, courseNumber)

\* Variant: no equality test, a match is looked for only below the node.
RECURSIVE searchBST_noMatch(_, _, _)
searchBST_noMatch(h, r, courseNumber) ==
    IF r = nullptr
    THEN nullptr
    ELSE IF StrLess(courseNumber, h[r].course.courseNumber)
         THEN searchBST_noMatch(h, h[r].left, courseNumber)
         ELSE searchBST_noMatch(h, h[r].right, courseNumber)

RECURSIVE searchBST(_, _, _)
searchBST(h, r, courseNumber) ==
    IF r = nullptr
    THEN nullptr
    ELSE IF h[r].course.courseNumber = courseNumber
         THEN r
         ELSE IF StrLess(courseNumber, h[r].course.courseNumber)
              THEN searchBST(h, h[r].left, courseNumber)
              ELSE searchBST(h, h[r].right, courseNumber)

(***************************************************************************)
(* The nodes the recursive calls of insertIntoBST and of searchBST are     *)
(* made on, in call order (the calls on nullptr left out).                 *)
(***************************************************************************)
RECURSIVE insertPath(_, _, _)
insertPath(h, r, c) ==
    IF r = nullptr
    THEN <<>>
    ELSE IF StrLess(c.courseNumber, h[r].course.courseNumber)
         THEN <<r>> \o insertPath(h, h[r].left, c)
         ELSE <<r>> \o insertPath(h, h[r].right, c)

RECURSIVE searchPath(_, _, _)
searchPath(h, r, courseNumber) ==
    IF r = nullptr
    THEN <<>>
    ELSE IF h[r].course.courseNumber = courseNumber
         THEN <<r>>
         ELSE IF StrLess(courseNumber, h[r].course.courseNumber)
              THEN <<r>> \o searchPath(h, h[r].left, courseNumber)
              ELSE <<r>> \o searchPath(h, h[r].right, courseNumber)

(***************************************************************************)
(* displayCoursesInOrder: the nodes in the order their courses are printed *)
(***************************************************************************)
RECURSIVE displayCoursesInOrder(_, _)
displayCoursesInOrder(h, r) ==
    IF r # nullptr
    THEN displayCoursesInOrder(h, h[r].left) \o <<r>>
             \o displayCoursesInOrder(h, h[r].right)
    ELSE <<>>

\* What the listing prints for the visited nodes.
Printed(h, nodes) == [i \in 1..Len(nodes) |-> h[nodes[i]].course]

(***************************************************************************)
(* The tree operations as steps.  inserted is the history of the records   *)
(* handed to insertIntoBST since the tree was empty; passes counts, up to  *)
(* 2, the traversals made since the last insert.                           *)
(***************************************************************************)
InitTree ==
    /\ heap = <<>>
    /\ root = nullptr
    /\ dataLoaded = FALSE
    /\ inserted = <<>>
    /\ op = "none"
    /\ key = <<>>
    /\ found = nullptr
    /\ listing = <<>>
    /\ passes = 0
    /\ loads = 0
    /\ line = <<>>
    /\ tokens = <<>>
    /\ file = <<>>
    /\ canOpen = TRUE
    /\ output = "none"

Insert(c) ==
    /\ UNCHANGED loads
    /\ Len(heap) < MaxNodes
    /\ LET res == insertIntoBST(heap, root, c)
       IN  /\ heap' = res.heap
           /\ root' = res.root
    /\ inserted' = Append(inserted, c)
    /\ op' = "insert"
    /\ passes' = 0
    /\ key' = <<>>
    /\ found' = nullptr
    /\ listing' = <<>>
    /\ UNCHANGED <<dataLoaded, line, tokens, file, canOpen, output>>

\* Variant: the test of line 46 written as an assignment to the node.
Search_overwrite(k) ==
    /\ UNCHANGED <<passes, loads>>
    /\ found' = searchBST(heap, root, k)
    /\ key' = k
    /\ op' = "search"
    /\ heap' = IF root = nullptr THEN heap
               ELSE [heap EXCEPT ![root].course.courseNumber = k]
    /\ UNCHANGED <<root, dataLoaded, inserted, listing, line, tokens,
                   file, canOpen, output>>

Search(k) ==
    /\ UNCHANGED <<passes, loads>>
    /\ found' = searchBST(heap, root, k)
    /\ key' = k
    /\ op' = "search"
    /\ UNCHANGED <<heap, root, dataLoaded, inserted, listing, line, tokens,
                   file, canOpen, output>>

\* Variant: the walk consumes the tree it was given.
Traverse_oneShot ==
    /\ UNCHANGED loads
    /\ listing' = displayCoursesInOrder(heap, root)
    /\ op' = "traverse"
    /\ passes' = Min(passes + 1, 2)
    /\ key' = <<>>
    /\ found' = nullptr
    /\ root' = nullptr
    /\ UNCHANGED <<heap, dataLoaded, inserted, line, tokens, file,
                   canOpen, output>>

Traverse ==
    /\ UNCHANGED loads
    /\ listing' = displayCoursesInOrder(heap, root)
    /\ op' = "traverse"
    /\ passes' = Min(passes + 1, 2)
    /\ key' = <<>>
    /\ found' = nullptr
    /\ UNCHANGED <<heap, root, dataLoaded, inserted, line, tokens, file,
                   canOpen, output>>

NextTree ==
    \/ \E c \in Courses : Insert(c)
    \/ \E k \in Ids : Search(k)
    \/ Traverse

SpecTree == InitTree /\ [][NextTree]_vars

(***************************************************************************)
(* splitString.  The istringstream is the string and a read position.      *)
(* getline fails when no character is left to extract; otherwise it takes  *)
(* the characters up to the next delimiter, which it consumes, or up to    *)
(* the end of the string.                                                  *)
(***************************************************************************)
getline(str, pos, delimiter) ==
    IF pos > Len(str)
    THEN [ok |-> FALSE, token |-> <<>>, pos |-> pos]
    ELSE LET stops == {i \in pos..Len(str) : str[i] = delimiter}
         IN  IF stops = {}
             THEN [ok |-> TRUE, token |-> SubSeq(str, pos, Len(str)),
                   pos |-> Len(str) + 1]
             ELSE LET d == CHOOSE i \in stops : \A j \in stops : i <= j
                  IN  [ok |-> TRUE, token |-> SubSeq(str, pos, d - 1),
                       pos |-> d + 1]

\* The while loop of lines 63-65, from read position pos with tokens toks.
RECURSIVE splitLoop(_, _, _, _)
splitLoop(str, pos, delimiter, toks) ==
    LET g == getline(str, pos, delimiter)
    IN  IF g.ok
        THEN splitLoop(str, g.pos, delimiter, Append(toks, g.token))
        ELSE toks

splitString(str, delimiter) == splitLoop(str, 1, delimiter, <<>>)

(***************************************************************************)
(* loadCoursesFromFile.  A file is the sequence of lines getline(file,     *)
(* line) delivers.  The state of the loop is the heap of nodes allocated   *)
(* by this call, the local root, and the history of the records handed to  *)
(* insertIntoBST.                                                          *)
(***************************************************************************)
LoadStart == [heap |-> <<>>, root |-> nullptr, inserted |-> <<>>]

\* The prerequisites loop of lines 96-98.
prerequisitesOf(toks) == SubSeq(toks, 3, Len(toks))

\* One iteration of the loop of lines 84-101.
loadLine(st, ln) ==
    LET toks == splitString(ln, Comma)
    IN  IF Len(toks) < 2
        THEN st
        ELSE LET course == Course(toks[1], toks[2], prerequisitesOf(toks))
                 res == insertIntoBST(st.heap, st.root, course)
             IN  [heap |-> res.heap, root |-> res.root,
                  inserted |-> Append(st.inserted, course)]

RECURSIVE loadLines(_, _)
loadLines(st, lns) ==
    IF lns = <<>> THEN st ELSE loadLines(loadLine(st, Head(lns)), Tail(lns))

\* Variant: the is_open test of lines 78-81 left out.
loadCoursesFromFile_noOpenCheck(f, isOpen) == loadLines(LoadStart, f)

loadCoursesFromFile(f, isOpen) ==
    IF ~isOpen THEN LoadStart ELSE loadLines(LoadStart, f)

(***************************************************************************)
(* One line through the parser and one iteration of the loader's loop,     *)
(* for every line up to MaxLineLen characters.                             *)
(***************************************************************************)
Lines == StrUpTo(Alphabet, MaxLineLen)

InitParse ==
    /\ line \in Lines
    /\ tokens = <<>>
    /\ heap = <<>>
    /\ root = nullptr
    /\ dataLoaded = FALSE
    /\ inserted = <<>>
    /\ op = "none"
    /\ key = <<>>
    /\ found = nullptr
    /\ listing = <<>>
    /\ passes = 0
    /\ loads = 0
    /\ file = <<>>
    /\ canOpen = TRUE
    /\ output = "none"

ParseLine ==
    /\ UNCHANGED <<passes, loads>>
    /\ op = "none"
    /\ tokens' = splitString(line, Comma)
    /\ LET st == loadLine(LoadStart, line)
       IN  /\ heap' = st.heap
           /\ root' = st.root
           /\ inserted' = st.inserted
    /\ output' = IF Len(tokens') < 2 THEN "InvalidFormat" ELSE "none"
    /\ op' = "parse"
    /\ UNCHANGED <<dataLoaded, key, found, listing, line, file, canOpen>>

NextParse == ParseLine

SpecParse == InitParse /\ [][NextParse]_vars

(***************************************************************************)
(* mainMenu.  Each choice of the switch is one step.  The nodes of a       *)
(* replaced tree are never freed and no pointer to them survives line      *)
(* 186, so heap holds the nodes of the latest load only.  loads counts,    *)
(* up to 2, the loads that returned a tree.                                *)
(***************************************************************************)
FileLines == { <<65>>, <<65, Comma>>,
               <<65, Comma, 66>>, <<66, Comma, 65, Comma, 65>> }

FilesOfLen(n) == [1..n -> FileLines]
Files == UNION {FilesOfLen(n) : n \in 0..MaxLines}

\* cin >> courseNumber delivers a non-empty word.
Words == Ids \ {<<>>}

InitMenu ==
    /\ heap = <<>>
    /\ root = nullptr
    /\ dataLoaded = FALSE
    /\ inserted = <<>>
    /\ op = "none"
    /\ key = <<>>
    /\ found = nullptr
    /\ listing = <<>>
    /\ passes = 0
    /\ loads = 0
    /\ line = <<>>
    /\ tokens = <<>>
    /\ file = <<>>
    /\ canOpen = TRUE
    /\ output = "none"

\* Variant: line 186 assigns root only when the load returned a tree.
Choice1_keepRoot(f, isOpen) ==
    /\ UNCHANGED passes
    /\ op # "exit"
    /\ LET st == loadCoursesFromFile(f, isOpen)
       IN  IF st.root # nullptr
           THEN /\ heap' = st.heap
                /\ root' = st.root
                /\ inserted' = st.inserted
                /\ dataLoaded' = TRUE
                /\ loads' = Min(loads + 1, 2)
                /\ output' = "LoadedSuccessfully"
           ELSE /\ UNCHANGED <<heap, root, inserted, dataLoaded, loads>>
                /\ output' = "FailedToLoad"
    /\ file' = f
    /\ canOpen' = isOpen
    /\ op' = "load"
    /\ key' = <<>>
    /\ found' = nullptr
    /\ listing' = <<>>
    /\ UNCHANGED <<line, tokens>>

\* Variant: the loader fills the tree the session already holds.
Choice1_appends(f, isOpen) ==
    /\ UNCHANGED passes
    /\ op # "exit"
    /\ LET st == IF isOpen
                THEN loadLines([heap |-> heap, root |-> root,
                                inserted |-> inserted], f)
                ELSE LoadStart
       IN  /\ heap' = st.heap
           /\ root' = st.root
           /\ inserted' = st.inserted
           /\ IF st.root # nullptr
              THEN /\ dataLoaded' = TRUE
                   /\ loads' = Min(loads + 1, 2)
                   /\ output' = "LoadedSuccessfully"
              ELSE /\ UNCHANGED <<dataLoaded, loads>>
                   /\ output' = "FailedToLoad"
    /\ file' = f
    /\ canOpen' = isOpen
    /\ op' = "load"
    /\ key' = <<>>
    /\ found' = nullptr
    /\ listing' = <<>>
    /\ UNCHANGED <<line, tokens>>

Choice1(f, isOpen) ==
    /\ UNCHANGED passes
    /\ op # "exit"
    /\ LET st == loadCoursesFromFile(f, isOpen)
       IN  /\ heap' = st.heap
           /\ root' = st.root
           /\ inserted' = st.inserted
           /\ IF st.root # nullptr
              THEN /\ dataLoaded' = TRUE
                   /\ loads' = Min(loads + 1, 2)
                   /\ output' = "LoadedSuccessfully"
              ELSE /\ UNCHANGED <<dataLoaded, loads>>
                   /\ output' = "FailedToLoad"
    /\ file' = f
    /\ canOpen' = isOpen
    /\ op' = "load"
    /\ key' = <<>>
    /\ found' = nullptr
    /\ listing' = <<>>
    /\ UNCHANGED <<line, tokens>>

Choice2 ==
    /\ UNCHANGED <<passes, loads>>
    /\ op # "exit"
    /\ IF dataLoaded
       THEN listing' = displayCoursesInOrder(heap, root) /\ output' = "Listing"
       ELSE listing' = <<>> /\ output' = "NoDataLoaded"
    /\ op' = "list"
    /\ key' = <<>>
    /\ found' = nullptr
    /\ UNCHANGED <<heap, root, dataLoaded, inserted, line, tokens, file, canOpen>>

Choice3(courseNumber) ==
    /\ UNCHANGED <<passes, loads>>
    /\ op # "exit"
    /\ IF dataLoaded
       THEN /\ key' = courseNumber
            /\ found' = searchBST(heap, root, courseNumber)
            /\ output' = IF found' = nullptr THEN "CourseNotFound"
                                             ELSE "CourseInfo"
       ELSE /\ key' = <<>>
            /\ found' = nullptr
            /\ output' = "NoDataLoaded"
    /\ op' = "lookup"
    /\ listing' = <<>>
    /\ UNCHANGED <<heap, root, dataLoaded, inserted, line, tokens, file, canOpen>>

Choice9 ==
    /\ UNCHANGED <<passes, loads>>
    /\ op # "exit"
    /\ op' = "exit"
    /\ output' = "Exiting"
    /\ UNCHANGED <<heap, root, dataLoaded, inserted, key, found, listing,
                   line, tokens, file, canOpen>>

ChoiceDefault ==
    /\ UNCHANGED <<passes, loads>>
    /\ op # "exit"
    /\ op' = "invalid"
    /\ output' = "InvalidChoice"
    /\ UNCHANGED <<heap, root, dataLoaded, inserted, key, found, listing,
                   line, tokens, file, canOpen>>

NextMenu ==
    \/ \E f \in Files, isOpen \in BOOLEAN : Choice1(f, isOpen)
    \/ Choice2
    \/ \E w \in Words : Choice3(w)
    \/ Choice9
    \/ ChoiceDefault

SpecMenu == InitMenu /\ [][NextMenu]_vars

(***************************************************************************)
(* Properties of the tree operations (SpecTree)                            *)
(***************************************************************************)
\* The insertions, by position in the history, that carry identifier k.
InsertedWith(k) == {i \in 1..Len(inserted) : inserted[i].courseNumber = k}

First(S) == CHOOSE i \in S : \A j \in S : i <= j

HasDuplicates == \E i, j \in 1..Len(inserted) :
                    i < j /\ inserted[i].courseNumber = inserted[j].courseNumber

\* C1: after any sequence of inserts from the empty tree, the in-order
\* traversal lists the identifiers in non-decreasing lexicographic order.
C1_InOrderNonDecreasing ==
    op = "traverse" =>
        \A p \in 1..(Len(listing) - 1) :
            StrLeq(heap[listing[p]].course.courseNumber,
                   heap[listing[p + 1]].course.courseNumber)

\* A traversal of three nodes, two of them with equal identifiers, built by
\* inserts that did not arrive in sorted order.
C1_Witness ==
    /\ op = "traverse"
    /\ Len(listing) = 3
    /\ HasDuplicates
    /\ \E i \in 1..2 : StrLess(inserted[i + 1].courseNumber,
                                inserted[i].courseNumber)

\* C2: every inserted record is found by a search on its own identifier:
\* the search returns a record with that identifier, and the record itself
\* when no record with that identifier was inserted before it.
C2_SearchFindsInserted ==
    op = "search" =>
        \A i \in 1..Len(inserted) :
            inserted[i].courseNumber = key =>
                /\ found # nullptr
                /\ heap[found].course.courseNumber = key
                /\ (\A j \in 1..(i - 1) : inserted[j].courseNumber # key)
                       => heap[found].course = inserted[i]

\* A search that found a record below the root of a three-node tree.
C2_Witness ==
    /\ op = "search"
    /\ Len(inserted) = 3
    /\ InsertedWith(key) # {}
    /\ found # nullptr
    /\ found # root

\* C3: among several inserted records with identifier k, search(k) returns
\* the node of the one inserted first, never a later one.
C3_SearchReturnsFirstInserted ==
    (op = "search" /\ InsertedWith(key) # {}) =>
        /\ found = First(InsertedWith(key))
        /\ heap[found].course = inserted[First(InsertedWith(key))]

\* A search for an identifier inserted twice, with different titles, whose
\* first record is not at the root.
C3_Witness ==
    /\ op = "search"
    /\ \E i, j \in InsertedWith(key) :
           i < j /\ inserted[i].courseTitle # inserted[j].courseTitle
    /\ found # nullptr
    /\ found # root

\* C4: the in-order traversal is the stable sort by identifier of the
\* insertion sequence: every inserted record exactly once, equal
\* identifiers adjacent and in insertion order.
C4_InOrderIsStableSort ==
    op = "traverse" =>
        /\ Len(listing) = Len(inserted)
        /\ {listing[p] : p \in 1..Len(listing)} = 1..Len(inserted)
        /\ Printed(heap, listing) = [p \in 1..Len(listing) |-> inserted[listing[p]]]
        /\ \A p \in 1..(Len(listing) - 1) :
               LET a == inserted[listing[p]].courseNumber
                   b == inserted[listing[p + 1]].courseNumber
               IN  \/ StrLess(a, b)
                   \/ a = b /\ listing[p] < listing[p + 1]

\* A traversal over duplicates with different titles where the duplicate
\* pair was separated by another insert.
C4_Witness ==
    /\ op = "traverse"
    /\ Len(listing) = 3
    /\ inserted[1].courseNumber = inserted[3].courseNumber
    /\ inserted[1].courseTitle # inserted[3].courseTitle
    /\ inserted[2].courseNumber # inserted[1].courseNumber

\* C5: search(k) returns not-found exactly when no inserted record has
\* identifier k.
C5_NotFoundIffAbsent ==
    op = "search" => (found = nullptr <=> InsertedWith(key) = {})

\* A search that fell off a missing child of a populated tree.
C5_Witness ==
    /\ op = "search"
    /\ Len(inserted) = 3
    /\ InsertedWith(key) = {}
    /\ found = nullptr


(***************************************************************************)
(* The comma-separated fields of a line as the record text format defines  *)
(* them: the stretches between consecutive commas, k commas delimiting     *)
(* k + 1 fields, empty ones included.                                      *)
(***************************************************************************)
CommaPos(ln) == {i \in 1..Len(ln) : ln[i] = Comma}

FieldCount(ln) == Cardinality(CommaPos(ln)) + 1

\* Position of the n-th comma; 0 before the first field and Len + 1 after
\* the last.
NthComma(ln, n) ==
    IF n = 0 THEN 0
    ELSE IF n = FieldCount(ln) THEN Len(ln) + 1
    ELSE CHOOSE i \in CommaPos(ln) :
             Cardinality({j \in CommaPos(ln) : j <= i}) = n

Fields(ln) ==
    [n \in 1..FieldCount(ln) |->
        SubSeq(ln, NthComma(ln, n - 1) + 1, NthComma(ln, n) - 1)]

HasTwoFields(ln) == FieldCount(ln) >= 2

RecordOf(ln) ==
    LET fs == Fields(ln)
    IN  Course(fs[1], fs[2], SubSeq(fs, 3, Len(fs)))

(***************************************************************************)
(* Properties of the loader and the parser                                 *)
(***************************************************************************)
\* C6: the loader skips the lines with fewer than 2 comma-separated fields
\* and goes on: the tree holds exactly one record per line with at least 2
\* fields, inserted in line order.
C6_OneRecordPerWellFormedLine ==
    (op = "load" /\ canOpen) =>
        LET good == SelectSeq(file, HasTwoFields)
        IN  /\ Len(heap) = Len(good)
            /\ Len(inserted) = Len(good)
            /\ \A i \in 1..Len(good) :
                   inserted[i].courseNumber = Fields(good[i])[1]
            /\ {n : n \in 1..Len(heap)}
                   = {displayCoursesInOrder(heap, root)[p] :
                          p \in 1..Len(displayCoursesInOrder(heap, root))}

\* C7: an accepted line with n >= 2 fields gives the record with identifier
\* field 0, title field 1 and prerequisites fields 2..n-1 in order.
C7_RecordFromFields ==
    (op = "parse" /\ inserted # <<>>) =>
        /\ HasTwoFields(line)
        /\ inserted = <<RecordOf(line)>>
        /\ heap[root].course = RecordOf(line)

\* C8: a line with k commas is split into exactly k + 1 fields in order,
\* empty fields kept wherever they are, and the 2-field minimum is applied
\* to that count.
C8_SplitKeepsEveryField ==
    op = "parse" =>
        /\ Len(tokens) = FieldCount(line)
        /\ tokens = Fields(line)
        /\ (inserted # <<>> <=> HasTwoFields(line))

\* C9: a load from a readable source that yields zero records is a
\* completed load: the loaded flag is true afterwards.
C9_EmptyLoadSetsLoaded ==
    (op = "load" /\ canOpen /\ inserted = <<>>) => dataLoaded

\* C10: every record stored in the tree has a non-empty identifier.
C10_IdentifierNonEmpty ==
    \A n \in 1..Len(heap) : heap[n].course.courseNumber # <<>>


(***************************************************************************)
(* Properties of the menu session (SpecMenu)                               *)
(***************************************************************************)
Accepted(ln) == Len(splitString(ln, Comma)) >= 2

\* C11: when the source cannot be opened the load fails before any line is
\* parsed or inserted: nothing is inserted, no tree is returned and the
\* caller is told that the load failed.
C11_OpenFailureLoadsNothing ==
    (op = "load" /\ ~canOpen) =>
        /\ inserted = <<>>
        /\ heap = <<>>
        /\ root = nullptr
        /\ output = "FailedToLoad"

\* A failed open of a file whose lines would all have been accepted.
C11_Witness ==
    /\ op = "load"
    /\ ~canOpen
    /\ Len(file) = 2
    /\ \A i \in 1..Len(file) : Accepted(file[i])
    /\ output = "FailedToLoad"

\* C12: loading zero lines yields the Empty tree, on which the traversal
\* yields the empty sequence and search returns not-found for every
\* identifier.
C12_EmptySourceEmptyTree ==
    (op \in {"load", "list", "lookup"} /\ canOpen /\ file = <<>>) =>
        /\ root = nullptr
        /\ displayCoursesInOrder(heap, root) = <<>>
        /\ \A k \in Ids : searchBST(heap, root, k) = nullptr
        /\ (op = "list" /\ dataLoaded) => listing = <<>>
        /\ (op = "lookup" /\ dataLoaded) =>
               found = nullptr /\ output = "CourseNotFound"

\* A listing of the tree left by a load of zero lines that followed a load
\* with records.
C12_Witness ==
    /\ op = "list"
    /\ canOpen
    /\ file = <<>>
    /\ dataLoaded
    /\ output = "Listing"
    /\ listing = <<>>


(***************************************************************************)
(* Structure and frame properties of the tree operations (SpecTree)        *)
(***************************************************************************)
\* C13: a second traversal of the same tree, with no insert in between,
\* yields the sequence the first one yielded.
C13_TraversalRepeatable ==
    [][(op' = "traverse" /\ passes >= 1) => listing' = listing]_vars

\* A three-node tree traversed twice since its last insert.
C13_Witness ==
    /\ op = "traverse"
    /\ passes = 2
    /\ Len(listing) = 3

\* The nodes of the subtree below pointer r.
RECURSIVE Subtree(_, _)
Subtree(h, r) ==
    IF r = nullptr THEN {}
    ELSE {r} \cup Subtree(h, h[r].left) \cup Subtree(h, h[r].right)

\* C14: for every node n, every identifier in n's left subtree is strictly
\* less than n's identifier and every identifier in n's right subtree is
\* greater than or equal to it.
C14_SearchTreeOrder ==
    \A n \in Subtree(heap, root) :
        /\ \A l \in Subtree(heap, heap[n].left) :
               StrLess(heap[l].course.courseNumber, heap[n].course.courseNumber)
        /\ \A r \in Subtree(heap, heap[n].right) :
               StrLeq(heap[n].course.courseNumber, heap[r].course.courseNumber)

\* A root with a left child and a right child that carries the root's own
\* identifier.
C14_Witness ==
    /\ root # nullptr
    /\ Cardinality(Subtree(heap, root)) = 3
    /\ heap[root].left # nullptr
    /\ heap[root].right # nullptr
    /\ heap[heap[root].right].course.courseNumber = heap[root].course.courseNumber


\* A step that handed one more record to insertIntoBST.
InsertStep == Len(inserted') = Len(inserted) + 1

\* The child links of the first n nodes of h that are not nullptr.
Links(h, n) ==
    {<<i, "left", h[i].left>> : i \in {j \in 1..n : h[j].left # nullptr}}
        \cup {<<i, "right", h[i].right>> : i \in {j \in 1..n : h[j].right # nullptr}}

\* C15: insert adds exactly one new leaf and changes nothing else: one more
\* node, every existing node keeps its record and its existing children,
\* and a record with an existing identifier becomes a node of its own.
C15_InsertAddsOneLeaf ==
    [][InsertStep =>
        LET n == Len(heap)
            new == n + 1
        IN  /\ Len(heap') = new
            /\ heap'[new] = TreeNode(inserted'[Len(inserted')])
            /\ \A i \in 1..n : heap'[i].course = heap[i].course
            /\ Links(heap, n) \subseteq Links(heap', n)
            /\ IF root = nullptr
               THEN root' = new /\ Links(heap', n) = Links(heap, n)
               ELSE /\ root' = root
                    /\ Cardinality(Links(heap', n) \ Links(heap, n)) = 1
                    /\ \A l \in Links(heap', n) \ Links(heap, n) : l[3] = new
       ]_vars

\* Three nodes after the insert of a record whose identifier was already
\* in the tree under another title.
C15_Witness ==
    /\ op = "insert"
    /\ Len(heap) = 3
    /\ Cardinality(Subtree(heap, root)) = 3
    /\ \E i \in 1..2 :
           /\ inserted[i].courseNumber = inserted[3].courseNumber
           /\ inserted[i].courseTitle # inserted[3].courseTitle
           /\ heap[i].course = inserted[i]

\* C16: search and the in-order traversal are read-only: the root, every
\* node's record and every child link are unchanged by either.
C16_SearchAndTraversalReadOnly ==
    [][op' \in {"search", "traverse"} => (heap' = heap /\ root' = root)]_vars

\* A successful search made after a traversal of a three-node tree that is
\* still the tree the inserts built.
C16_Witness ==
    /\ op = "search"
    /\ found # nullptr
    /\ passes >= 1
    /\ Len(heap) = 3
    /\ \A i \in 1..3 : heap[i].course = inserted[i]

\* C17: the first insert into the Empty tree makes the inserted record the
\* root, every later insert keeps that root node, and no insert, search or
\* traversal takes a Populated tree back to Empty or an Empty one to
\* Populated except that first insert.
C17_EmptyThenPopulated ==
    [][/\ (root = nullptr /\ InsertStep) =>
              /\ root' # nullptr
              /\ heap'[root'] = TreeNode(inserted'[1])
       /\ (root = nullptr /\ ~InsertStep) => root' = nullptr
       /\ root # nullptr => root' = root
      ]_vars

\* A populated tree of three nodes, still rooted at the first record, after
\* a traversal and a search.
C17_Witness ==
    /\ op = "search"
    /\ passes >= 1
    /\ Len(inserted) = 3
    /\ root # nullptr
    /\ heap[root].course = inserted[1]
    /\ heap[root].left # nullptr


\* A sequence of nodes that starts at the root and goes from each node to
\* one of its children.
IsDescent(path) ==
    /\ path # <<>> => path[1] = root
    /\ \A p \in 1..(Len(path) - 1) :
           path[p + 1] \in {heap[path[p]].left, heap[path[p]].right}
    /\ \A p, q \in 1..Len(path) : p # q => path[p] # path[q]

\* C19: insert, search and traversal terminate on every tree built by
\* inserts: every child was allocated after its parent, so a descent never
\* returns to a node; insert and search make their calls along one
\* root-to-leaf path of at most n nodes, and the traversal visits each of
\* the n nodes exactly once.
C19_OperationsTerminate ==
    LET n == Len(heap)
        walk == displayCoursesInOrder(heap, root)
    IN  /\ \A i \in 1..n :
               /\ heap[i].left = nullptr \/ heap[i].left \in (i + 1)..n
               /\ heap[i].right = nullptr \/ heap[i].right \in (i + 1)..n
        /\ \A k \in Ids :
               LET sp == searchPath(heap, root, k)
                   ip == insertPath(heap, root, Course(k, <<>>, <<>>))
               IN  /\ IsDescent(sp)
                   /\ Len(sp) <= n
                   /\ IsDescent(ip)
                   /\ Len(ip) <= n
                   /\ n > 0 => \/ heap[ip[Len(ip)]].left = nullptr
                               \/ heap[ip[Len(ip)]].right = nullptr
        /\ Len(walk) = n
        /\ \A i \in 1..n : \E p \in 1..Len(walk) : walk[p] = i

\* A search that went down all three nodes of a tree that is one chain.
C19_Witness ==
    /\ op = "search"
    /\ Len(heap) = 3
    /\ Len(searchPath(heap, root, key)) = 3
    /\ passes >= 1

(***************************************************************************)
(* Successive loads in the menu session (SpecMenu)                         *)
(***************************************************************************)
\* The tree below r holds one node per accepted line of f, with the
\* identifier and title of that line, and no other node.
HoldsExactly(h, r, f) ==
    LET acc == SelectSeq(f, Accepted)
    IN  /\ Subtree(h, r) = 1..Len(acc)
        /\ Len(displayCoursesInOrder(h, r)) = Len(acc)
        /\ \A i \in 1..Len(acc) :
               /\ h[i].course.courseNumber = Fields(acc[i])[1]
               /\ h[i].course.courseTitle = Fields(acc[i])[2]

\* C18: every load starts from an empty tree: after a load, and so after
\* two successive loads, the session's tree holds exactly the records of
\* the source just read and none of an earlier one.
C18_LoadReplacesCatalog ==
    (op = "load" /\ canOpen) => HoldsExactly(heap, root, file)

\* A second successful load whose source has a single record.
C18_Witness ==
    /\ op = "load"
    /\ canOpen
    /\ loads = 2
    /\ Len(SelectSeq(file, Accepted)) = 1
    /\ Cardinality(Subtree(heap, root)) = 1

\* C20: whenever dataLoaded is true the session's root refers to the
\* non-empty tree of the most recent successful load; a failed load attempt
\* leaves the loaded catalog in place.
C20_LoadedMeansTreePresent ==
    dataLoaded => (root # nullptr /\ inserted # <<>>)

====
